---- MODULE Spec2Model ----
(***************************************************************************)
(* Model of the wage calculation of Muse-Contracts and of the contract     *)
(* routes that call it (src/app.py, src/config.py, src/models.py).         *)
(*                                                                         *)
(* Number representation.  The program computes with Python floats; the    *)
(* model computes the same decimal quantities exactly, as integers:        *)
(*   hours                     hundredths of an hour      (2.5  -> 250)    *)
(*   configured money rates    cents                      (333.91 -> 33391)*)
(*   multipliers and premiums  hundredths                 (1.2  -> 120)    *)
(*   pension / work dues rate  ten-thousandths            (0.1799 -> 1799) *)
(*   pay amounts               micro-dollars, 10^-6 $     (1 cent = 10000) *)
(*   rate products             pairs <<m, f>> standing for                 *)
(*                             m * 10^-6 $ + f * 10^-10 $, 0 <= f < 10000  *)
(*   stored totals             cents, wrapped: Float(c) = <<c>>            *)
(* Python's None is the empty tuple; an optional float x is <<x>>.         *)
(* Strings that the code searches (instrument names) are sequences of      *)
(* one-character strings, so that lower() and the substring test "in" are  *)
(* computed and not assumed.                                               *)
(***************************************************************************)
EXTENDS Integers, Sequences, FiniteSets, TLC

VARIABLES
    app_config,   \* which configuration the process loaded (app.config)
    contract,     \* the Contract row handed to calculate_contract_totals
    calc,         \* locals of the last calculate_contract_totals call, None before
    fp_tie_up,    \* the side on which float products that are exact decimal half
                  \* cents fall in this run (see Round2)
    helper,       \* the last direct call of is_principal / get_cartage_fee: its
                  \* arguments and what it returned; None before
    db,           \* the committed contract table: contract id -> row (with its
                  \* side_musician rows), None where there is no row
    request,      \* the last HTTP request served and how it ended; None before
    threads,      \* concurrent invocations of calculate_contract_totals: for each
                  \* its position, its contract object and the contract as passed
    frames        \* the local variables of the invocations (app.py:144)

vars == <<app_config, contract, calc, fp_tie_up, helper, db, request, threads, frames>>

(***************************************************************************)
(* Python values                                                           *)
(***************************************************************************)
None == <<>>

Float(x) == <<x>>

\* `v or 0` for an optional number (app.py:140)
OrZero(v) == IF v = None THEN 0 ELSE v[1]

\* dict.get(key, default)
DictGet(d, k, default) == IF k \in DOMAIN d THEN d[k] ELSE default

\* the empty dict {}
EmptyDict == [k \in {} |-> 0]

\* truthiness of a dict or of None: `not scale_config`
Falsy(d) == DOMAIN d = {}

LowerMap ==
    "A" :> "a" @@ "B" :> "b" @@ "C" :> "c" @@ "D" :> "d" @@ "E" :> "e" @@
    "F" :> "f" @@ "G" :> "g" @@ "H" :> "h" @@ "I" :> "i" @@ "J" :> "j" @@
    "K" :> "k" @@ "L" :> "l" @@ "M" :> "m" @@ "N" :> "n" @@ "O" :> "o" @@
    "P" :> "p" @@ "Q" :> "q" @@ "R" :> "r" @@ "S" :> "s" @@ "T" :> "t" @@
    "U" :> "u" @@ "V" :> "v" @@ "W" :> "w" @@ "X" :> "x" @@ "Y" :> "y" @@
    "Z" :> "z"

\* str.lower()
Lower(s) == [i \in 1..Len(s) |-> IF s[i] \in DOMAIN LowerMap THEN LowerMap[s[i]] ELSE s[i]]

\* `p in s` for strings
IsSubstring(p, s) ==
    \E i \in 0..(Len(s) - Len(p)) : SubSeq(s, i + 1, i + Len(p)) = p

(***************************************************************************)
(* Exact decimal arithmetic standing for the float arithmetic              *)
(***************************************************************************)
\* x * (pct / 100) for a micro-dollar amount x that is a whole number of
\* 10^-4 $ (every amount the code scales is a cent rate times 1 or times a
\* hundredths multiplier)
Scale(x, pct) == (x \div 100) * pct

\* amount (micro-dollars) * rate (ten-thousandths), exact, as a pair
MulRate(g, r) ==
    LET gh == g \div 10000
        gl == g % 10000
        lo == gl * r
    IN  <<gh * r + (lo \div 10000), lo % 10000>>

AddPair(p, q) ==
    LET f == p[2] + q[2]
    IN  <<p[1] + q[1] + (f \div 10000), f % 10000>>

\* a slip: the quotient truncated
Ceil_Floor(a, b) == a \div b

\* math.ceil(a / b) for a > 0, b > 0
Ceil(a, b) == (a + b - 1) \div b

\* a slip: the value cut to whole cents
Round2_Truncate(p) == p[1] \div 10000

\* round(x, 2), in cents.  Away from an exact half cent the float result is the
\* nearest cent.  On an exact decimal half cent the float holds a binary
\* neighbour of the decimal value, and which side of the half it lies on is
\* below the resolution of the exact arithmetic: fp_tie_up says which.
Round2(p) ==
    LET c    == p[1] \div 10000
        rem  == p[1] % 10000
        tie  == rem = 5000 /\ p[2] = 0
        up   == \/ rem > 5000
                \/ rem = 5000 /\ p[2] > 0
                \/ tie /\ fp_tie_up
    IN  IF up THEN c + 1 ELSE c

(***************************************************************************)
(* Configuration (src/config.py), as app.config holds it after             *)
(* app.config.from_object('config')                                        *)
(***************************************************************************)
S_Violin == <<"V", "i", "o", "l", "i", "n">>

S_Cello == <<"C", "e", "l", "l", "o">>

S_StringBass == <<"S", "t", "r", "i", "n", "g", " ", "B", "a", "s", "s">>

S_Empty == <<>>

PRINCIPAL_INSTRUMENTS_802 ==
    << <<"s", "e", "c", "o", "n", "d", " ", "v", "i", "o", "l", "i", "n">>,
       <<"v", "i", "o", "l", "a">>,
       <<"c", "e", "l", "l", "o">>,
       <<"b", "a", "s", "s">>,
       <<"f", "l", "u", "t", "e">>,
       <<"o", "b", "o", "e">>,
       <<"c", "l", "a", "r", "i", "n", "e", "t">>,
       <<"b", "a", "s", "s", "o", "o", "n">>,
       <<"f", "r", "e", "n", "c", "h", " ", "h", "o", "r", "n">>,
       <<"t", "r", "u", "m", "p", "e", "t">>,
       <<"t", "r", "o", "m", "b", "o", "n", "e">>,
       <<"t", "u", "b", "a">>,
       <<"t", "i", "m", "p", "a", "n", "i">>,
       <<"p", "e", "r", "c", "u", "s", "s", "i", "o", "n">>,
       <<"h", "a", "r", "p">>,
       <<"k", "e", "y", "b", "o", "a", "r", "d">> >>

CARTAGE_INSTRUMENTS_STD_802 ==
    << <<"c", "e", "l", "l", "o">>,
       <<"b", "a", "s", "s", " ", "c", "l", "a", "r", "i", "n", "e", "t">>,
       <<"c", "o", "n", "t", "r", "a", "b", "a", "s", "s", " ", "c", "l", "a", "r", "i", "n", "e", "t">>,
       <<"c", "o", "n", "t", "r", "a", "b", "a", "s", "s", "o", "o", "n">>,
       <<"t", "u", "b", "a">> >>

CARTAGE_INSTRUMENTS_SB_802 ==
    << <<"s", "t", "r", "i", "n", "g", " ", "b", "a", "s", "s">> >>

\* SCALES['Local802']['ClassicalConcert_23_24'] (config.py:30-117): every key
\* holding a rate, unit, premium or list of the performance, day-rehearsal,
\* premium, doubling, benefit and cartage sections; the metadata, midnight,
\* night-rehearsal and sound-check keys, which the code never reads, are left out.
ClassicalConcert_23_24 ==
    [ PERFORMANCE_BASE |-> 33391,
      PERF_PRINCIPAL_BASE |-> 40069,
      PERF_OT_UNIT_MINS |-> 15,
      PERF_OT_RATE |-> 5009,
      PERF_OT_PRINCIPAL_RATE |-> 6010,
      REHEARSAL_DAY_MIN_CALL_PAY |-> 16778,
      REHEARSAL_DAY_PRINCIPAL_MIN_CALL_PAY |-> 20134,
      REH_DAY_OT_UNIT_MINS |-> 30,
      REH_DAY_OT_RATE |-> 5033,
      REH_DAY_OT_PRINCIPAL_RATE |-> 6040,
      PRINCIPAL_PREMIUM_PERCENT |-> 20,
      PRINCIPAL_INSTRUMENTS |-> PRINCIPAL_INSTRUMENTS_802,
      DOUBLING_FIRST_PREMIUM_PERCENT |-> 20,
      DOUBLING_ADDITIONAL_PREMIUM_PERCENT |-> 10,
      PENSION_RATE |-> 1799,
      HEALTH_PER_PERFORMANCE |-> 8400,
      HEALTH_PER_REHEARSAL |-> 3150,
      WORK_DUES_RATE |-> 350,
      CARTAGE_RATE_STD |-> 2994,
      CARTAGE_INSTRUMENTS_STD |-> CARTAGE_INSTRUMENTS_STD_802,
      CARTAGE_RATE_SB |-> 4904,
      CARTAGE_INSTRUMENTS_SB |-> CARTAGE_INSTRUMENTS_SB_802 ]

\* The SCALES table of config.py:28-139: one local, one scale.
SCALES_shipped ==
    [ Local802 |-> [ ClassicalConcert_23_24 |-> ClassicalConcert_23_24 ] ]

\* app.config after loading config.py: the uppercase names of the module.
\* SCALES is the only one the calculation reads that exists.
ShippedAppConfig == [ SCALES |-> SCALES_shipped ]

(***************************************************************************)
(* A second configuration, for the parts of the calculation the shipped    *)
(* table cannot reach: schedules keyed by the names the code reads, a      *)
(* schedule with a zero base rate, an empty schedule, and the two          *)
(* process-wide cartage keys get_cartage_fee reads.                        *)
(***************************************************************************)
TestSchedule ==
    [ PERFORMANCE_BASE |-> 10000,
      REHEARSAL_MIN_CALL |-> 5003,
      PERFORMANCE_PRINCIPAL_PREMIUM |-> 120,
      REHEARSAL_PRINCIPAL_PREMIUM |-> 110,
      PERF_OT_UNIT_MINS |-> 15,
      PERF_OT_RATE |-> 1000,
      PERF_OT_PRINCIPAL_RATE |-> 1200,
      REH_OT_UNIT_MINS |-> 30,
      REH_OT_RATE |-> 500,
      REH_OT_PRINCIPAL_RATE |-> 600,
      DOUBLING_FIRST_PREMIUM |-> 20,
      PENSION_RATE |-> 1799,
      HEALTH_PER_PERFORMANCE |-> 8400,
      HEALTH_PER_REHEARSAL |-> 3150,
      WORK_DUES_RATE |-> 350,
      PRINCIPAL_INSTRUMENTS |-> PRINCIPAL_INSTRUMENTS_802,
      CARTAGE_INSTRUMENTS_STD |-> CARTAGE_INSTRUMENTS_STD_802,
      CARTAGE_INSTRUMENTS_SB |-> CARTAGE_INSTRUMENTS_SB_802 ]

ZeroBaseSchedule == [ TestSchedule EXCEPT !.PERFORMANCE_BASE = 0 ]

\* a schedule whose principal multipliers are 0: a principal's base pay is 0
ZeroPremiumSchedule ==
    [ TestSchedule EXCEPT !.PERFORMANCE_PRINCIPAL_PREMIUM = 0,
                          !.REHEARSAL_PRINCIPAL_PREMIUM = 0 ]

SCALES_test ==
    [ Local802 |-> [ ClassicalConcert_23_24 |-> ClassicalConcert_23_24 ],
      TestLocal |-> [ Full |-> TestSchedule,
                      ZeroBase |-> ZeroBaseSchedule,
                      ZeroPremium |-> ZeroPremiumSchedule,
                      Empty |-> EmptyDict ] ]

TestAppConfig ==
    [ SCALES |-> SCALES_test,
      SCALE_CARTAGE_STRING_BASS |-> 4904,
      SCALE_CARTAGE_CELLO_BASS_ETC |-> 2994 ]

ConfigNames == {"shipped", "test"}

\* app.config of the running process
AppConfig(name) == IF name = "shipped" THEN ShippedAppConfig ELSE TestAppConfig

(***************************************************************************)
(* Classification helpers (app.py:110-121)                                 *)
(***************************************************************************)
\* the process-wide configuration the helpers and the calculation read
APP == AppConfig(app_config)

\* any(p.lower() in s.lower() for p in lst)
AnyMatch(lst, s) ==
    \E i \in 1..Len(lst) : IsSubstring(Lower(lst[i]), Lower(s))

\* a slip: the two strings compared as written, without lower()
is_principal_CaseSensitive(instrument_string, scale_config) ==
    IF instrument_string = S_Empty \/ Falsy(scale_config) THEN FALSE
    ELSE LET principal_list == DictGet(scale_config, "PRINCIPAL_INSTRUMENTS", <<>>)
         IN  \E i \in 1..Len(principal_list) : IsSubstring(principal_list[i], instrument_string)

\* app.py:110-114
is_principal(instrument_string, scale_config) ==
    IF instrument_string = S_Empty \/ Falsy(scale_config) THEN FALSE
    ELSE LET principal_list == DictGet(scale_config, "PRINCIPAL_INSTRUMENTS", <<>>)
         IN  IF principal_list = <<>> THEN FALSE
             ELSE AnyMatch(principal_list, instrument_string)

\* the fee in cents
get_cartage_fee(instrument_string, has_cartage_flag, scale_config) ==
    IF ~has_cartage_flag \/ instrument_string = S_Empty \/ Falsy(scale_config) THEN 0
    ELSE LET sb_list  == DictGet(scale_config, "CARTAGE_INSTRUMENTS_SB", <<>>)
             std_list == DictGet(scale_config, "CARTAGE_INSTRUMENTS_STD", <<>>)
         IN  IF AnyMatch(sb_list, instrument_string)
                 THEN DictGet(APP, "SCALE_CARTAGE_STRING_BASS", 0)
             ELSE IF AnyMatch(std_list, instrument_string)
                 THEN DictGet(APP, "SCALE_CARTAGE_CELLO_BASS_ETC", 0)
             ELSE 0

(***************************************************************************)
(* calculate_contract_totals (app.py:124-205)                              *)
(***************************************************************************)
\* app.py:128
LookupScale(c) ==
    DictGet(DictGet(DictGet(APP, "SCALES", EmptyDict), c.applicable_local, EmptyDict),
            c.applicable_scale, None)

\* app.py:130-137: the rates the calculation reads, each with its default
Rates(scale_config) ==
    [ base_perf_rate         |-> DictGet(scale_config, "PERFORMANCE_BASE", 0),
      base_reh_rate          |-> DictGet(scale_config, "REHEARSAL_MIN_CALL", 0),
      principal_perf_mult    |-> DictGet(scale_config, "PERFORMANCE_PRINCIPAL_PREMIUM", 100),
      principal_reh_mult     |-> DictGet(scale_config, "REHEARSAL_PRINCIPAL_PREMIUM", 100),
      perf_ot_unit_mins      |-> DictGet(scale_config, "PERF_OT_UNIT_MINS", 15),
      perf_ot_rate           |-> DictGet(scale_config, "PERF_OT_RATE", 0),
      perf_ot_principal_rate |-> DictGet(scale_config, "PERF_OT_PRINCIPAL_RATE", 0),
      reh_ot_unit_mins       |-> DictGet(scale_config, "REH_OT_UNIT_MINS", 30),
      reh_ot_rate            |-> DictGet(scale_config, "REH_OT_RATE", 0),
      reh_ot_principal_rate  |-> DictGet(scale_config, "REH_OT_PRINCIPAL_RATE", 0),
      doubling_premium       |-> DictGet(scale_config, "DOUBLING_FIRST_PREMIUM", 0),
      pension_rate           |-> DictGet(scale_config, "PENSION_RATE", 0),
      health_perf_rate       |-> DictGet(scale_config, "HEALTH_PER_PERFORMANCE", 0),
      health_reh_rate        |-> DictGet(scale_config, "HEALTH_PER_REHEARSAL", 0),
      work_dues_rate         |-> DictGet(scale_config, "WORK_DUES_RATE", 0) ]

\* a slip: a base rate of 0 passes the check
BaseRateUsable_AcceptsZero(base_perf_rate) == base_perf_rate >= 0

\* app.py:138
BaseRateUsable(base_perf_rate) == base_perf_rate > 0

\* app.py:141
HasPerf(perf_hours) == perf_hours > 0

\* a slip: the rehearsal flag not consulted
HasReh_IgnoresFlag(has_rehearsal, reh_hours) == reh_hours > 0

\* app.py:141
HasReh(has_rehearsal, reh_hours) == has_rehearsal /\ reh_hours > 0

\* the 2.5 hours of app.py:153, in hundredths of an hour
OT_THRESHOLD == 250

\* a slip: units counted on the whole session, not on the excess over 2.5 hours
OvertimeUnits_WholeSession(hours, unit_mins) ==
    IF hours > OT_THRESHOLD /\ unit_mins > 0
        THEN Ceil(hours * 60, unit_mins * 100)
        ELSE 0

\* app.py:153/158/179/184: math.ceil(((hours - 2.5) * 60) / unit_mins), guarded by
\* `hours > 2.5 and unit_mins > 0`; 0 when the guard fails (no overtime is added)
OvertimeUnits(hours, unit_mins) ==
    IF hours > OT_THRESHOLD /\ unit_mins > 0
        THEN Ceil((hours - OT_THRESHOLD) * 60, unit_mins * 100)
        ELSE 0

\* ot_rate = principal rate if principal else standard rate (cents)
OvertimeRate(principal, ot_rate, ot_principal_rate) ==
    IF principal THEN ot_principal_rate ELSE ot_rate

\* a slip: `+=` for `*=`: the multiplier added to the rate (100 + 1.2)
BasePay_Additive(base_rate, principal, mult) ==
    IF principal THEN base_rate * 10000 + mult * 10000 ELSE base_rate * 10000

\* app.py:150-151/176-177 (and 155-156/181-182): base pay of a session that
\* occurred, in micro-dollars: the rate, `*=` the multiplier if principal
BasePay(base_rate, principal, mult) ==
    IF principal THEN Scale(base_rate * 10000, mult) ELSE base_rate * 10000

\* app.py:159/185
Subtotal(perf_pay, reh_pay) == perf_pay + reh_pay

\* a slip: the premium paid on any positive subtotal, doubling or not
DoublingPay_Ungated(is_doubling, subtotal, doubling_premium) ==
    IF subtotal > 0 THEN Scale(subtotal, doubling_premium) ELSE 0

\* app.py:160/186
DoublingPay(is_doubling, subtotal, doubling_premium) ==
    IF is_doubling /\ subtotal > 0 THEN Scale(subtotal, doubling_premium) ELSE 0

\* app.py:163/189
Gross(perf_pay, reh_pay, ot_pay, doubling_pay, cartage_pay) ==
    perf_pay + reh_pay + ot_pay + doubling_pay + cartage_pay

\* app.py:174-189 (the side-musician block; the leader block 148-163 is the
\* same computation): one participant's pay, all amounts in micro-dollars
ParticipantPay(r, has_perf, has_reh, perf_hours, reh_hours, principal, is_doubling, cartage_fee) ==
    LET perf_pay      == IF has_perf THEN BasePay(r.base_perf_rate, principal, r.principal_perf_mult) ELSE 0
        perf_ot_units == IF has_perf THEN OvertimeUnits(perf_hours, r.perf_ot_unit_mins) ELSE 0
        perf_ot       == perf_ot_units * OvertimeRate(principal, r.perf_ot_rate, r.perf_ot_principal_rate) * 10000
        reh_pay       == IF has_reh THEN BasePay(r.base_reh_rate, principal, r.principal_reh_mult) ELSE 0
        reh_ot_units  == IF has_reh THEN OvertimeUnits(reh_hours, r.reh_ot_unit_mins) ELSE 0
        reh_ot        == reh_ot_units * OvertimeRate(principal, r.reh_ot_rate, r.reh_ot_principal_rate) * 10000
        health        == (IF has_perf THEN r.health_perf_rate ELSE 0)
                           + (IF has_reh THEN r.health_reh_rate ELSE 0)
        subtotal      == Subtotal(perf_pay, reh_pay)
        doubling_pay  == DoublingPay(is_doubling, subtotal, r.doubling_premium)
        cartage_pay   == cartage_fee * 10000
    IN  [ is_principal  |-> principal,
          is_doubling   |-> is_doubling,
          perf_pay      |-> perf_pay,
          reh_pay       |-> reh_pay,
          perf_ot_units |-> perf_ot_units,
          reh_ot_units  |-> reh_ot_units,
          perf_ot       |-> perf_ot,
          reh_ot        |-> reh_ot,
          ot_pay        |-> perf_ot + reh_ot,
          subtotal      |-> subtotal,
          doubling_pay  |-> doubling_pay,
          cartage_pay   |-> cartage_pay,
          health        |-> health * 10000,
          gross         |-> Gross(perf_pay, reh_pay, perf_ot + reh_ot, doubling_pay, cartage_pay) ]

\* a slip: the leader classified by the columns the contract stores
LeaderPay_StoredFlags(r, scale_config, has_perf, has_reh, perf_hours, reh_hours) ==
    ParticipantPay(r, has_perf, has_reh, perf_hours, reh_hours,
                   contract.leader_is_principal, contract.leader_is_doubling,
                   get_cartage_fee(contract.leader_instrument, contract.leader_has_cartage,
                                   scale_config))

\* app.py:147-163: the leader, with the flags the code hardcodes
LeaderPay(r, scale_config, has_perf, has_reh, perf_hours, reh_hours) ==
    ParticipantPay(r, has_perf, has_reh, perf_hours, reh_hours,
                   FALSE, FALSE, get_cartage_fee(S_Empty, FALSE, scale_config))

\* app.py:171-189: one side musician
MusicianPay(musician, r, scale_config, has_perf, has_reh, perf_hours, reh_hours) ==
    ParticipantPay(r, has_perf, has_reh, perf_hours, reh_hours,
                   is_principal(musician.instrument, scale_config),
                   musician.is_doubling,
                   get_cartage_fee(musician.instrument, musician.has_cartage, scale_config))

\* a slip: the gross accumulated onto the total the contract already stores
InitialTotals_Stored(c) ==
    [ total_gross               |-> OrZero(c.total_gross_comp) * 10000,
      total_pension_contrib     |-> <<0, 0>>,
      total_health_contrib      |-> 0,
      musicians_processed_count |-> 0 ]

\* app.py:144: the accumulators before the first participant
InitialTotals(c) ==
    [ total_gross               |-> 0,
      total_pension_contrib     |-> <<0, 0>>,
      total_health_contrib      |-> 0,
      musicians_processed_count |-> 0 ]

\* a slip: every roster member counted, paid or not
AddParticipant_CountsAll(acc, pay, pension_rate) ==
    [ total_gross               |-> IF pay.gross > 0 THEN acc.total_gross + pay.gross
                                                     ELSE acc.total_gross,
      total_pension_contrib     |-> IF pay.gross > 0
                                        THEN AddPair(acc.total_pension_contrib,
                                                     MulRate(pay.gross, pension_rate))
                                        ELSE acc.total_pension_contrib,
      total_health_contrib      |-> acc.total_health_contrib + pay.health,
      musicians_processed_count |-> acc.musicians_processed_count + 1 ]

\* a slip: the health contribution accrued only for a participant with pay
AddParticipant_HealthIfPaid(acc, pay, pension_rate) ==
    [ total_gross               |-> IF pay.gross > 0 THEN acc.total_gross + pay.gross
                                                     ELSE acc.total_gross,
      total_pension_contrib     |-> IF pay.gross > 0
                                        THEN AddPair(acc.total_pension_contrib,
                                                     MulRate(pay.gross, pension_rate))
                                        ELSE acc.total_pension_contrib,
      total_health_contrib      |-> IF pay.gross > 0 THEN acc.total_health_contrib + pay.health
                                                     ELSE acc.total_health_contrib,
      musicians_processed_count |-> IF pay.gross > 0 THEN acc.musicians_processed_count + 1
                                                     ELSE acc.musicians_processed_count ]

\* app.py:152/157/165 and 178/183/191: one participant added to the accumulators
AddParticipant(acc, pay, pension_rate) ==
    [ total_gross               |-> IF pay.gross > 0 THEN acc.total_gross + pay.gross
                                                     ELSE acc.total_gross,
      total_pension_contrib     |-> IF pay.gross > 0
                                        THEN AddPair(acc.total_pension_contrib,
                                                     MulRate(pay.gross, pension_rate))
                                        ELSE acc.total_pension_contrib,
      total_health_contrib      |-> acc.total_health_contrib + pay.health,
      musicians_processed_count |-> IF pay.gross > 0 THEN acc.musicians_processed_count + 1
                                                     ELSE acc.musicians_processed_count ]

RECURSIVE Accumulate(_, _, _)
\* the leader, then the loop of app.py:171 over the side musicians in id order
Accumulate(acc, pays, pension_rate) ==
    IF pays = <<>> THEN acc
    ELSE Accumulate(AddParticipant(acc, Head(pays), pension_rate), Tail(pays), pension_rate)

\* app.py:194
WorkDues(total_gross, work_dues_rate) == MulRate(total_gross, work_dues_rate)

\* app.py:197-199: the success path's writes to the contract
WriteTotals(c, acc, total_work_dues_contrib) ==
    [ c EXCEPT !.total_gross_comp = Float(Round2(<<acc.total_gross, 0>>)),
               !.total_work_dues  = Float(Round2(total_work_dues_contrib)),
               !.total_pension    = Float(Round2(acc.total_pension_contrib)),
               !.total_health     = Float(Round2(<<acc.total_health_contrib, 0>>)),
               !.num_musicians    = acc.musicians_processed_count ]

\* app.py:204: the handler's writes to the contract
ZeroTotals(c) ==
    [ c EXCEPT !.total_gross_comp = Float(0),
               !.total_work_dues  = Float(0),
               !.total_pension    = Float(0),
               !.total_health     = Float(0) ]

\* app.py:202: `except Exception` catches every exception the body raises
\* (ValueError is a subclass of Exception)
Caught(exc) == exc \in {"ValueError", "TypeError", "KeyError", "AttributeError"}

\* app.py:127-201: the body of the try block: the exception it raises, or None,
\* and the locals it computed
TryBody(c) ==
    LET scale_config == LookupScale(c)
    IN  IF Falsy(scale_config)
            THEN [ raised |-> "ValueError", msg |-> "Scale configuration missing for this contract.",
                   has_perf |-> FALSE, has_reh |-> FALSE, pays |-> <<>>,
                   acc |-> InitialTotals(c), total_work_dues_contrib |-> <<0, 0>> ]
        ELSE
        LET r == Rates(scale_config)
        IN  IF ~BaseRateUsable(r.base_perf_rate)
                THEN [ raised |-> "ValueError", msg |-> "Base performance rate not positive.",
                       has_perf |-> FALSE, has_reh |-> FALSE, pays |-> <<>>,
                       acc |-> InitialTotals(c), total_work_dues_contrib |-> <<0, 0>> ]
            ELSE
            LET perf_hours == OrZero(c.actual_hours_engagement)
                reh_hours  == OrZero(c.actual_hours_rehearsal)
                has_perf   == HasPerf(perf_hours)
                has_reh    == HasReh(c.has_rehearsal, reh_hours)
                leader     == LeaderPay(r, scale_config, has_perf, has_reh, perf_hours, reh_hours)
                sides      == [ i \in 1..Len(c.side_musicians) |->
                                  MusicianPay(c.side_musicians[i], r, scale_config,
                                              has_perf, has_reh, perf_hours, reh_hours) ]
                pays       == <<leader>> \o sides
                acc        == Accumulate(InitialTotals(c), pays, r.pension_rate)
            IN  [ raised |-> "", msg |-> "",
                  has_perf |-> has_perf, has_reh |-> has_reh, pays |-> pays,
                  acc |-> acc,
                  total_work_dues_contrib |-> WorkDues(acc.total_gross, r.work_dues_rate) ]

\* calculate_contract_totals(contract): the contract it returns and what the
\* call did (outcome "ok": line 201; "zeroed": line 205; "raised": an exception
\* left the function)
calculate_contract_totals(c) ==
    LET b == TryBody(c)
    IN  IF b.raised = ""
            THEN [ contract |-> WriteTotals(c, b.acc, b.total_work_dues_contrib),
                   outcome |-> "ok", body |-> b ]
        ELSE IF Caught(b.raised)
            THEN [ contract |-> ZeroTotals(c), outcome |-> "zeroed", body |-> b ]
        ELSE [ contract |-> c, outcome |-> "raised", body |-> b ]

(***************************************************************************)
(* Inputs                                                                  *)
(***************************************************************************)
\* most side musicians on a contract
MaxSide == 1

Instruments == {S_Empty, S_Violin, S_Cello, S_StringBass}

\* SideMusician rows (models.py:35-55): the columns the calculation reads
Musicians == [ instrument : Instruments, is_doubling : BOOLEAN, has_cartage : BOOLEAN ]

RECURSIVE SeqsUpTo(_, _)
SeqsUpTo(S, n) ==
    IF n = 0 THEN {<<>>}
    ELSE LET shorter == SeqsUpTo(S, n - 1)
         IN  shorter \cup { Append(s, x) : s \in { q \in shorter : Len(q) = n - 1 }, x \in S }

Rosters == SeqsUpTo(Musicians, MaxSide)

\* (applicable_local, applicable_scale): the shipped pair (the column defaults,
\* models.py:73-74), a scale the shipped local lacks, and the test local's
ScaleKeys ==
    { <<"Local802", "ClassicalConcert_23_24">>, <<"Local802", "ChamberMusic_23_24">>,
      <<"TestLocal", "Full">>, <<"TestLocal", "ZeroBase">>, <<"TestLocal", "Empty">> }

\* actual_hours_engagement, actual_hours_rehearsal (models.py:92-93), nullable
PerfHours == {None, Float(250), Float(275), Float(284), Float(300)}

RehHours == {None, Float(250), Float(310)}

\* what the result columns hold before the call: a new row (models.py:87,
\* 109-112), or the results of an earlier calculation of other inputs
PriorResults ==
    { [ total |-> None, num_musicians |-> 1 ],
      [ total |-> Float(98765), num_musicians |-> 7 ] }

ContractsOn(keys) ==
    { [ applicable_local        |-> k[1],
        applicable_scale        |-> k[2],
        actual_hours_engagement |-> ph,
        actual_hours_rehearsal  |-> rh,
        has_rehearsal           |-> hr,
        side_musicians          |-> ros,
        num_musicians           |-> pr.num_musicians,
        total_gross_comp        |-> pr.total,
        total_work_dues         |-> pr.total,
        total_pension           |-> pr.total,
        total_health            |-> pr.total ] :
      k \in keys, ph \in PerfHours, rh \in RehHours, hr \in BOOLEAN,
      ros \in Rosters, pr \in PriorResults }

Contracts == ContractsOn(ScaleKeys)

\* the schedules on which a calculation succeeds, and the one on which a
\* participant of a session can earn nothing
PayingScaleKeys ==
    { <<"Local802", "ClassicalConcert_23_24">>, <<"TestLocal", "Full">>,
      <<"TestLocal", "ZeroPremium">> }

(***************************************************************************)
(* The state machine: a contract is handed to calculate_contract_totals,   *)
(* any number of times                                                     *)
(***************************************************************************)
Init ==
    /\ app_config \in ConfigNames
    /\ contract \in Contracts
    /\ calc = None
    /\ fp_tie_up \in BOOLEAN
    /\ helper = None
    /\ db = None
    /\ request = None
    /\ threads = None
    /\ frames = None

Calculate ==
    LET res == calculate_contract_totals(contract)
    IN  /\ contract' = res.contract
        /\ calc' = [ outcome |-> res.outcome, before |-> contract, body |-> res.body ]
        /\ UNCHANGED <<app_config, fp_tie_up, helper, db, request, threads, frames>>

Next == Calculate

Spec == Init /\ [][Next]_vars

\* the same machine on the contracts of the schedules that pay, under the
\* configuration that has them all
InitPaying ==
    /\ app_config = "test"
    /\ contract \in ContractsOn(PayingScaleKeys)
    /\ calc = None
    /\ fp_tie_up \in BOOLEAN
    /\ helper = None
    /\ db = None
    /\ request = None
    /\ threads = None
    /\ frames = None

SpecPaying == InitPaying /\ [][Next]_vars

(***************************************************************************)
(* Vocabulary of the properties                                            *)
(***************************************************************************)
Called == calc # None

Succeeded == Called /\ calc.outcome = "ok"

\* the four totals and the participant count a contract holds
Results(c) ==
    <<c.total_gross_comp, c.total_work_dues, c.total_pension, c.total_health, c.num_musicians>>

FourTotals(c) ==
    <<c.total_gross_comp, c.total_work_dues, c.total_pension, c.total_health>>

\* the contract names the shipped schedule
OnShippedSchedule(c) ==
    c.applicable_local = "Local802" /\ c.applicable_scale = "ClassicalConcert_23_24"

\* the rates the last successful call resolved
CalcRates == Rates(LookupScale(calc.before))

\* the schedule table has no entry for the contract's pair, or the entry has no
\* positive PERFORMANCE_BASE
NoUsableSchedule(c) ==
    LET table == APP.SCALES
    IN  \/ c.applicable_local \notin DOMAIN table
        \/ c.applicable_scale \notin DOMAIN table[c.applicable_local]
        \/ LET entry == table[c.applicable_local][c.applicable_scale]
           IN  \/ "PERFORMANCE_BASE" \notin DOMAIN entry
               \/ entry.PERFORMANCE_BASE <= 0

(***************************************************************************)
(* C1.  When the contract's (applicable_local, applicable_scale) pair has  *)
(* no schedule, or the schedule's PERFORMANCE_BASE is not positive, the    *)
(* call returns normally with the four totals 0.0 and num_musicians as it  *)
(* was before the call.                                                    *)
(***************************************************************************)
C1_FailureZeroesTotals ==
    (Called /\ NoUsableSchedule(calc.before)) =>
        /\ calc.outcome = "zeroed"
        /\ FourTotals(contract) = <<Float(0), Float(0), Float(0), Float(0)>>
        /\ contract.num_musicians = calc.before.num_musicians

\* a schedule with base rate 0 hit a contract holding stale totals and a count of 7
C1_Witness ==
    /\ Called
    /\ app_config = "test"
    /\ calc.before.applicable_scale = "ZeroBase"
    /\ calc.before.total_pension = Float(98765)
    /\ calc.body.raised = "ValueError"
    /\ contract.total_pension = Float(0)
    /\ contract.num_musicians = 7

(***************************************************************************)
(* C2.  End-to-end example: on the shipped schedule (base 333.91, 15       *)
(* minute overtime unit at 50.09, pension 0.1799, health 84.00 per         *)
(* performance, work dues 0.035) a contract with 3.0 performance hours, no *)
(* rehearsal and no side musicians gets gross 434.09, pension 78.09,       *)
(* health 84.00, work dues 15.19 and a participant count of 1.             *)
(***************************************************************************)
C2_Example(c) ==
    /\ OnShippedSchedule(c)
    /\ c.actual_hours_engagement = Float(300)
    /\ ~(c.has_rehearsal /\ OrZero(c.actual_hours_rehearsal) > 0)
    /\ c.side_musicians = <<>>

C2_EndToEnd ==
    (Called /\ C2_Example(calc.before)) =>
        /\ contract.total_gross_comp = Float(43409)
        /\ contract.total_pension = Float(7809)
        /\ contract.total_health = Float(8400)
        /\ contract.total_work_dues = Float(1519)
        /\ contract.num_musicians = 1

C2_Witness ==
    /\ Called
    /\ app_config = "shipped"
    /\ C2_Example(calc.before)
    /\ calc.before.num_musicians = 7
    /\ calc.body.pays[1].perf_ot_units = 2
    /\ contract.total_gross_comp = Float(43409)

(***************************************************************************)
(* C3.  For a session that occurred, the overtime units are 0 when the     *)
(* hours are at most 2.5 and otherwise the least whole number of units     *)
(* covering (hours - 2.5) * 60 minutes (15 minute unit: 2.75 h -> 1,       *)
(* 2.84 h -> 2, 3.0 h -> 2); the overtime pay is the units times the       *)
(* principal overtime rate for a principal and the standard rate           *)
(* otherwise, with the performance unit and rates for the performance and  *)
(* the rehearsal unit and rates for the rehearsal.                         *)
(***************************************************************************)
\* n is ceiling(excess minutes / unit_mins), hours in hundredths
IsCeilingUnits(n, hours, unit_mins) ==
    IF hours <= 250 THEN n = 0
    ELSE /\ n >= 1
         /\ n * unit_mins * 100 >= (hours - 250) * 60
         /\ (n - 1) * unit_mins * 100 < (hours - 250) * 60

C3_Overtime ==
    Succeeded =>
        LET r  == CalcRates
            ph == OrZero(calc.before.actual_hours_engagement)
            rh == OrZero(calc.before.actual_hours_rehearsal)
        IN  \A i \in 1..Len(calc.body.pays) :
              LET pay == calc.body.pays[i]
              IN  /\ calc.body.has_perf =>
                        /\ IsCeilingUnits(pay.perf_ot_units, ph, r.perf_ot_unit_mins)
                        /\ (r.perf_ot_unit_mins = 15 /\ ph = 275) => pay.perf_ot_units = 1
                        /\ (r.perf_ot_unit_mins = 15 /\ ph = 284) => pay.perf_ot_units = 2
                        /\ (r.perf_ot_unit_mins = 15 /\ ph = 300) => pay.perf_ot_units = 2
                        /\ pay.perf_ot = pay.perf_ot_units * 10000 *
                               (IF pay.is_principal THEN r.perf_ot_principal_rate
                                                    ELSE r.perf_ot_rate)
                  /\ calc.body.has_reh =>
                        /\ IsCeilingUnits(pay.reh_ot_units, rh, r.reh_ot_unit_mins)
                        /\ pay.reh_ot = pay.reh_ot_units * 10000 *
                               (IF pay.is_principal THEN r.reh_ot_principal_rate
                                                    ELSE r.reh_ot_rate)
                  /\ pay.ot_pay = (IF calc.body.has_perf THEN pay.perf_ot ELSE 0)
                                    + (IF calc.body.has_reh THEN pay.reh_ot ELSE 0)

\* 2.84 h of performance and 3.1 h of rehearsal, a principal side musician:
\* 2 performance units at 12.00 and 2 rehearsal units of 30 minutes at 6.00
C3_Witness ==
    /\ Succeeded
    /\ calc.before.applicable_scale = "Full"
    /\ calc.before.actual_hours_engagement = Float(284)
    /\ calc.before.actual_hours_rehearsal = Float(310)
    /\ Len(calc.body.pays) = 2
    /\ calc.body.pays[2].is_principal
    /\ calc.body.pays[2].perf_ot_units = 2
    /\ calc.body.pays[2].reh_ot_units = 2
    /\ calc.body.pays[2].ot_pay = 36000000
    /\ calc.body.pays[1].ot_pay = 30000000

(***************************************************************************)
(* C4.  A second call on a contract whose inputs are unchanged leaves the  *)
(* four totals and num_musicians as the first call left them, and the four *)
(* totals a call writes are those it writes for the same inputs on a       *)
(* contract whose result columns are still empty.                          *)
(***************************************************************************)
\* the contract with its result columns as a new row has them
Fresh(c) ==
    [ c EXCEPT !.total_gross_comp = None, !.total_work_dues = None,
               !.total_pension = None, !.total_health = None, !.num_musicians = 1 ]

C4_PriorIndependent ==
    Called =>
        /\ FourTotals(contract) = FourTotals(calculate_contract_totals(Fresh(calc.before)).contract)
        /\ Succeeded =>
             contract.num_musicians
                 = calculate_contract_totals(Fresh(calc.before)).contract.num_musicians

C4_Idempotent ==
    /\ []C4_PriorIndependent
    /\ [][Called => Results(contract') = Results(contract)]_vars

\* a successful call ran on a contract that already held the results of a call
C4_Witness ==
    /\ Succeeded
    /\ calc.before.total_gross_comp = contract.total_gross_comp
    /\ calc.before.total_pension = contract.total_pension
    /\ calc.before.num_musicians = contract.num_musicians
    /\ contract.total_gross_comp # Float(0)
    /\ Len(contract.side_musicians) = 1

(***************************************************************************)
(* C5.  The base pay of a session that occurred is, for a principal, the   *)
(* session's base rate times the schedule's principal multiplier for that  *)
(* session type (base 100 with multiplier 1.2 gives 120, not 101.2), and   *)
(* for a non-principal the base rate unchanged.                            *)
(***************************************************************************)
C5_PrincipalMultiplies ==
    Succeeded =>
        LET r == CalcRates
        IN  \A i \in 1..Len(calc.body.pays) :
              LET pay == calc.body.pays[i]
              IN  /\ calc.body.has_perf =>
                        /\ pay.is_principal =>
                             pay.perf_pay = r.base_perf_rate * r.principal_perf_mult * 100
                        /\ ~pay.is_principal => pay.perf_pay = r.base_perf_rate * 10000
                        /\ (pay.is_principal /\ r.base_perf_rate = 10000
                                /\ r.principal_perf_mult = 120) => pay.perf_pay = 120000000
                  /\ calc.body.has_reh =>
                        /\ pay.is_principal =>
                             pay.reh_pay = r.base_reh_rate * r.principal_reh_mult * 100
                        /\ ~pay.is_principal => pay.reh_pay = r.base_reh_rate * 10000

\* a principal side musician on the schedule with base 100.00 and multiplier 1.2
C5_Witness ==
    /\ Succeeded
    /\ calc.before.applicable_scale = "Full"
    /\ calc.body.has_perf /\ calc.body.has_reh
    /\ Len(calc.body.pays) = 2
    /\ calc.before.side_musicians[1].instrument = S_Cello
    /\ calc.body.pays[2].is_principal
    /\ calc.body.pays[2].perf_pay = 120000000
    /\ calc.body.pays[2].reh_pay = 55033000
    /\ calc.body.pays[1].perf_pay = 100000000

(***************************************************************************)
(* C10.  Doubling gate: a participant's doubling pay is non-zero only if   *)
(* the participant is doubling and the base pay subtotal is strictly       *)
(* positive; a doubling participant on a contract with no performance and  *)
(* no rehearsal gets a doubling pay of exactly 0.                          *)
(***************************************************************************)
\* the is_doubling flag of participant i of the last call: the leader's is
\* hardcoded false (app.py:147), a side musician's is the row's column
InputIsDoubling(i) ==
    IF i = 1 THEN FALSE ELSE calc.before.side_musicians[i - 1].is_doubling

C10_DoublingGate ==
    Succeeded =>
        \A i \in 1..Len(calc.body.pays) :
          LET pay == calc.body.pays[i]
          IN  /\ pay.doubling_pay # 0 =>
                    (InputIsDoubling(i) /\ pay.perf_pay + pay.reh_pay + pay.ot_pay > 0)
              /\ (~calc.body.has_perf /\ ~calc.body.has_reh) => pay.doubling_pay = 0

\* a doubling musician with no session gets nothing, though the schedule has a
\* 20% doubling premium
C10_Witness ==
    /\ Succeeded
    /\ CalcRates.doubling_premium = 20
    /\ ~calc.body.has_perf /\ ~calc.body.has_reh
    /\ Len(calc.body.pays) = 2
    /\ InputIsDoubling(2)
    /\ calc.body.pays[2].doubling_pay = 0
    /\ calc.body.pays[2].gross = 0

(***************************************************************************)
(* C6.  On the shipped schedule a side musician whose instrument is a      *)
(* principal instrument is paid 400.69 for a performance of at most 2.5    *)
(* hours, more than the 333.91 of a non-principal.                         *)
(***************************************************************************)
C6_ShippedPrincipalPremium ==
    (Succeeded /\ OnShippedSchedule(calc.before) /\ calc.body.has_perf
        /\ OrZero(calc.before.actual_hours_engagement) <= 250) =>
        \A i \in 2..Len(calc.body.pays) :
            calc.body.pays[i].is_principal =>
                /\ calc.body.pays[i].perf_pay = 400690000
                /\ calc.body.pays[i].perf_pay > 333910000

(***************************************************************************)
(* C7.  On the shipped schedule, when the contract has a rehearsal (flag   *)
(* set, rehearsal hours > 0), the rehearsal base pay of every              *)
(* non-principal participant is the minimum-call pay 167.78, a strictly    *)
(* positive addition to the gross.                                         *)
(***************************************************************************)
C7_ShippedRehearsalPay ==
    (Succeeded /\ OnShippedSchedule(calc.before) /\ calc.before.has_rehearsal
        /\ OrZero(calc.before.actual_hours_rehearsal) > 0) =>
        \A i \in 1..Len(calc.body.pays) :
            ~calc.body.pays[i].is_principal =>
                /\ calc.body.pays[i].reh_pay = 167780000
                /\ calc.body.pays[i].gross >= calc.body.pays[i].perf_pay + 167780000

(***************************************************************************)
(* C8.  The doubling premium of a doubling participant is the schedule's   *)
(* first-doubling fraction of the participant's base-plus-overtime         *)
(* subtotal: performance base + rehearsal base + overtime of both          *)
(* sessions.                                                               *)
(***************************************************************************)
C8_DoublingOnBasePlusOvertime ==
    Succeeded =>
        \A i \in 1..Len(calc.body.pays) :
          LET pay == calc.body.pays[i]
          IN  InputIsDoubling(i) =>
                pay.doubling_pay
                    = ((pay.perf_pay + pay.reh_pay + pay.ot_pay) \div 100)
                        * CalcRates.doubling_premium

(***************************************************************************)
(* C9.  On the shipped schedule a doubling side musician on a contract     *)
(* with a performance gets a doubling premium of 20% of the pay subtotal,  *)
(* so a gross strictly above that of the same musician not doubling.       *)
(***************************************************************************)
C9_ShippedDoublingPremium ==
    (Succeeded /\ OnShippedSchedule(calc.before) /\ calc.body.has_perf) =>
        \A i \in 2..Len(calc.body.pays) :
          LET pay == calc.body.pays[i]
          IN  InputIsDoubling(i) =>
                /\ pay.doubling_pay > 0
                /\ pay.doubling_pay \in { ((pay.perf_pay + pay.reh_pay) \div 100) * 20,
                                          ((pay.perf_pay + pay.reh_pay + pay.ot_pay) \div 100) * 20 }
                /\ pay.gross > pay.perf_pay + pay.reh_pay + pay.ot_pay + pay.cartage_pay

(***************************************************************************)
(* C11.  A side musician whose cartage flag is set gets the schedule's     *)
(* string-bass cartage rate when a string-bass-list entry is a             *)
(* case-insensitive substring of the instrument, else the schedule's       *)
(* standard cartage rate when a standard-list entry is; on the shipped     *)
(* schedule a flagged 'String Bass' gets 49.04 and a flagged 'Cello'       *)
(* 29.94.                                                                  *)
(***************************************************************************)
C11_CartageFromSchedule ==
    Succeeded =>
        LET scale_config == LookupScale(calc.before)
            sb_list  == DictGet(scale_config, "CARTAGE_INSTRUMENTS_SB", <<>>)
            std_list == DictGet(scale_config, "CARTAGE_INSTRUMENTS_STD", <<>>)
        IN  \A i \in 2..Len(calc.body.pays) :
              LET musician == calc.before.side_musicians[i - 1]
                  pay      == calc.body.pays[i]
              IN  (musician.has_cartage /\ musician.instrument # S_Empty) =>
                    /\ AnyMatch(sb_list, musician.instrument) =>
                          pay.cartage_pay = DictGet(scale_config, "CARTAGE_RATE_SB", 0) * 10000
                    /\ (~AnyMatch(sb_list, musician.instrument)
                            /\ AnyMatch(std_list, musician.instrument)) =>
                          pay.cartage_pay = DictGet(scale_config, "CARTAGE_RATE_STD", 0) * 10000
                    /\ (OnShippedSchedule(calc.before) /\ musician.instrument = S_StringBass) =>
                          pay.cartage_pay = 49040000
                    /\ (OnShippedSchedule(calc.before) /\ musician.instrument = S_Cello) =>
                          pay.cartage_pay = 29940000

(***************************************************************************)
(* The two classification helpers called directly (app.py:110-121), on     *)
(* arguments drawn from bounded sets                                       *)
(***************************************************************************)
S_VIOLA == <<"V", "I", "O", "L", "A">>

\* instrument arguments: None and "" are the same falsy value here
HelperInstruments == Instruments \cup {S_VIOLA}

\* a schedule whose lists are written with capitals
CapitalsSchedule ==
    [ PRINCIPAL_INSTRUMENTS   |-> << <<"V", "i", "o", "l", "a">> >>,
      CARTAGE_INSTRUMENTS_STD |-> << <<"V", "i", "o", "l", "a">> >>,
      CARTAGE_INSTRUMENTS_SB  |-> << <<"B", "A", "S", "S">> >>,
      CARTAGE_RATE_STD        |-> 1111,
      CARTAGE_RATE_SB         |-> 2222 ]

\* a schedule whose lists are empty, and one that has no lists
EmptyListsSchedule ==
    [ PRINCIPAL_INSTRUMENTS   |-> <<>>,
      CARTAGE_INSTRUMENTS_STD |-> <<>>,
      CARTAGE_INSTRUMENTS_SB  |-> <<>> ]

NoListsSchedule == [ PERFORMANCE_BASE |-> 10000 ]

HelperScheduleNames == {"None", "empty", "shipped", "capitals", "emptylists", "nolists"}

HelperSchedule(name) ==
    CASE name = "None"       -> None
      [] name = "empty"      -> EmptyDict
      [] name = "shipped"    -> ClassicalConcert_23_24
      [] name = "capitals"   -> CapitalsSchedule
      [] name = "emptylists" -> EmptyListsSchedule
      [] name = "nolists"    -> NoListsSchedule

\* no call has been made; the process configuration is any of the two
InitHelpers ==
    /\ app_config \in ConfigNames
    /\ contract = None
    /\ calc = None
    /\ fp_tie_up = FALSE
    /\ helper = None
    /\ db = None
    /\ request = None
    /\ threads = None
    /\ frames = None

\* is_principal(instrument_string, scale_config)
CallIsPrincipal ==
    \E instrument \in HelperInstruments, schedule \in HelperScheduleNames :
        /\ helper' = [ fn |-> "is_principal", instrument |-> instrument,
                       flag |-> FALSE, schedule |-> schedule,
                       principal |-> is_principal(instrument, HelperSchedule(schedule)),
                       fee |-> 0 ]
        /\ UNCHANGED <<app_config, contract, calc, fp_tie_up, db, request, threads, frames>>

\* get_cartage_fee(instrument_string, has_cartage_flag, scale_config)
CallGetCartageFee ==
    \E instrument \in HelperInstruments, flag \in BOOLEAN, schedule \in HelperScheduleNames :
        /\ helper' = [ fn |-> "get_cartage_fee", instrument |-> instrument,
                       flag |-> flag, schedule |-> schedule,
                       principal |-> FALSE,
                       fee |-> get_cartage_fee(instrument, flag, HelperSchedule(schedule)) ]
        /\ UNCHANGED <<app_config, contract, calc, fp_tie_up, db, request, threads, frames>>

NextHelpers == CallIsPrincipal \/ CallGetCartageFee

SpecHelpers == InitHelpers /\ [][NextHelpers]_vars

(***************************************************************************)
(* C12.  is_principal returns false for an empty or absent instrument and  *)
(* for an empty principal list, and otherwise returns true if and only if  *)
(* at least one entry of the schedule's principal-instrument list occurs   *)
(* as a case-insensitive substring of the instrument string; it returns a  *)
(* boolean for every argument (it never raises).                           *)
(***************************************************************************)
\* the principal list the schedule argument of the last call holds
HelperPrincipalList ==
    LET schedule == HelperSchedule(helper.schedule)
    IN  IF "PRINCIPAL_INSTRUMENTS" \in DOMAIN schedule
            THEN schedule.PRINCIPAL_INSTRUMENTS ELSE <<>>

C12_IsPrincipal ==
    (helper # None /\ helper.fn = "is_principal") =>
        /\ helper.principal \in BOOLEAN
        /\ helper.instrument = S_Empty => ~helper.principal
        /\ HelperPrincipalList = <<>> => ~helper.principal
        /\ (helper.instrument # S_Empty /\ HelperPrincipalList # <<>>) =>
              (helper.principal <=>
                  \E i \in 1..Len(HelperPrincipalList) :
                      IsSubstring(Lower(HelperPrincipalList[i]), Lower(helper.instrument)))
        /\ helper.schedule = "shipped" =>
              /\ helper.instrument = S_Cello => helper.principal
              /\ helper.instrument = S_StringBass => helper.principal
              /\ helper.instrument = S_VIOLA => helper.principal
              /\ helper.instrument = S_Violin => ~helper.principal
        /\ helper.schedule = "capitals" =>
              (helper.principal <=> helper.instrument = S_VIOLA)

\* 'Cello' against the shipped list, whose entry is 'cello'
C12_Witness ==
    /\ helper # None /\ helper.fn = "is_principal"
    /\ helper.schedule = "shipped"
    /\ helper.instrument = S_Cello
    /\ helper.principal

(***************************************************************************)
(* C13.  On every successful calculation the total health contribution is  *)
(* (1 + number of side musicians) times (the per-performance amount if a   *)
(* performance occurred, plus the per-rehearsal amount if a rehearsal      *)
(* occurred), whatever the participants' instruments, flags and gross; a   *)
(* participant whose gross is 0 while a performance occurred still         *)
(* contributes the per-performance amount.                                 *)
(***************************************************************************)
\* the flat health amount of one participant of the contract, in cents, read
\* off the contract's inputs and the schedule
FlatHealthPerHead(c) ==
    LET schedule == LookupScale(c)
    IN  (IF OrZero(c.actual_hours_engagement) > 0
            THEN DictGet(schedule, "HEALTH_PER_PERFORMANCE", 0) ELSE 0)
        + (IF c.has_rehearsal /\ OrZero(c.actual_hours_rehearsal) > 0
            THEN DictGet(schedule, "HEALTH_PER_REHEARSAL", 0) ELSE 0)

C13_FlatHealth ==
    Succeeded =>
        /\ contract.total_health
              = Float((1 + Len(calc.before.side_musicians)) * FlatHealthPerHead(calc.before))
        /\ \A i \in 1..Len(calc.body.pays) :
              calc.body.pays[i].health = FlatHealthPerHead(calc.before) * 10000

\* a principal on the schedule whose principal multiplier is 0 plays a
\* performance for a gross of 0; the contract's health total is twice 84.00
C13_Witness ==
    /\ Succeeded
    /\ calc.before.applicable_scale = "ZeroPremium"
    /\ calc.body.has_perf /\ ~calc.body.has_reh
    /\ Len(calc.body.pays) = 2
    /\ calc.body.pays[2].gross = 0
    /\ calc.body.pays[1].gross > 0
    /\ contract.total_health = Float(16800)

(***************************************************************************)
(* C14.  On every successful calculation total gross is the sum of the     *)
(* individual gross of the leader and of every side musician, total        *)
(* pension the sum over the participants of gross times the pension rate,  *)
(* total work dues the total gross times the work-dues rate, and each of   *)
(* the four stored totals is the full-precision value rounded to 2         *)
(* decimal places.                                                         *)
(***************************************************************************)
RECURSIVE SumGross(_)
\* the sum of the participants' gross, in micro-dollars
SumGross(pays) ==
    IF pays = <<>> THEN 0 ELSE Head(pays).gross + SumGross(Tail(pays))

RECURSIVE SumPension(_, _)
\* the sum of gross * pension_rate over the participants, exact
SumPension(pays, pension_rate) ==
    IF pays = <<>> THEN <<0, 0>>
    ELSE AddPair(MulRate(Head(pays).gross, pension_rate), SumPension(Tail(pays), pension_rate))

\* stored (cents, wrapped) is a nearest cent of the exact value p: either
\* neighbour when p is exactly half way
IsRoundedTo2(stored, p) ==
    /\ stored # None
    /\ stored[1] * 10000 - 5000 <= p[1]
    /\ \/ p[1] < stored[1] * 10000 + 5000
       \/ p[1] = stored[1] * 10000 + 5000 /\ p[2] = 0

PaidPays == SelectSeq(calc.body.pays, LAMBDA pay : pay.gross > 0)

C16_CountsWholeRoster ==
    Succeeded => contract.num_musicians = 1 + Len(contract.side_musicians)

(***************************************************************************)
(* C17.  A session counts only when present: the performance is present    *)
(* iff the performance hours are above 0, the rehearsal iff the rehearsal  *)
(* flag is set and the rehearsal hours are above 0; absent (null) hours    *)
(* are 0.  An absent session adds no base pay, no overtime and no health   *)
(* contribution for any participant; in particular, with the flag false,   *)
(* stored rehearsal hours above 0 add nothing.                             *)
(***************************************************************************)
\* an optional number is present and above 0
Positive(v) == v # None /\ v[1] > 0

C17_SessionsPresent ==
    Succeeded =>
        LET c == calc.before
            perf_present == Positive(c.actual_hours_engagement)
            reh_present  == c.has_rehearsal /\ Positive(c.actual_hours_rehearsal)
        IN  /\ calc.body.has_perf <=> perf_present
            /\ calc.body.has_reh <=> reh_present
            /\ \A i \in 1..Len(calc.body.pays) :
                  LET pay == calc.body.pays[i]
                  IN  /\ ~perf_present => (pay.perf_pay = 0 /\ pay.perf_ot = 0)
                      /\ ~reh_present => (pay.reh_pay = 0 /\ pay.reh_ot = 0)
                      /\ pay.health
                            = ((IF perf_present THEN CalcRates.health_perf_rate ELSE 0)
                               + (IF reh_present THEN CalcRates.health_reh_rate ELSE 0)) * 10000
                      /\ (~perf_present /\ ~reh_present) => pay.ot_pay = 0

\* flag false, 3.1 rehearsal hours stored, on the schedule that pays
\* rehearsals and rehearsal overtime: nothing of the rehearsal is paid
C17_Witness ==
    /\ Succeeded
    /\ calc.before.applicable_scale = "Full"
    /\ ~calc.before.has_rehearsal
    /\ calc.before.actual_hours_rehearsal = Float(310)
    /\ calc.before.actual_hours_engagement = Float(250)
    /\ Len(calc.body.pays) = 2
    /\ ~calc.body.has_reh
    /\ \A i \in 1..2 : calc.body.pays[i].reh_pay = 0 /\ calc.body.pays[i].ot_pay = 0
    /\ contract.total_health = Float(16800)

(***************************************************************************)
(* C18.  Pension and work dues are computed on the gross scale wages       *)
(* excluding cartage: a participant's cartage fee changes neither the      *)
(* total pension nor the total work dues.                                  *)
(***************************************************************************)
\* the participants' gross without their cartage fee
ScaleWages(pays) ==
    [ i \in 1..Len(pays) |-> [ gross |-> pays[i].gross - pays[i].cartage_pay ] ]

C18_CartageOutsidePensionAndDues ==
    Succeeded =>
        LET wages == ScaleWages(calc.body.pays)
        IN  /\ calc.body.acc.total_pension_contrib
                  = SumPension(wages, CalcRates.pension_rate)
            /\ calc.body.total_work_dues_contrib
                  = MulRate(SumGross(wages), CalcRates.work_dues_rate)
            /\ IsRoundedTo2(contract.total_pension, SumPension(wages, CalcRates.pension_rate))
            /\ IsRoundedTo2(contract.total_work_dues,
                            MulRate(SumGross(wages), CalcRates.work_dues_rate))

(***************************************************************************)
(* The contract routes (app.py:252-386) over the committed table.  A       *)
(* request is served whole: what it leaves uncommitted is rolled back when *)
(* its session is removed at the end of the request, so the table holds    *)
(* what the request committed, or what it held before.                     *)
(***************************************************************************)
Users == {"alice", "bob"}

\* the ids of the contract table: one row, addressed by its id
ContractIds == {1}

\* Contract(user_id=current_user.id, status='draft') (app.py:256) with the
\* column defaults of models.py:69-112; the columns the calculation and the
\* routes read or write
NewDraft(user) ==
    [ user_id                 |-> user,
      status                  |-> "draft",
      applicable_local        |-> "Local802",
      applicable_scale        |-> "ClassicalConcert_23_24",
      actual_hours_engagement |-> None,
      actual_hours_rehearsal  |-> None,
      has_rehearsal           |-> FALSE,
      side_musicians          |-> <<>>,
      num_musicians           |-> 1,
      total_gross_comp        |-> None,
      total_work_dues         |-> None,
      total_pension           |-> None,
      total_health            |-> None ]

\* names typed into the musician rows of the step-2 page
Names == {"", " ", "Ann"}

\* str.strip() on the names drawn
Strip(s) == IF s = " " THEN "" ELSE s

\* one submitted musician row (musician-<i>-name, -instrument, -is_doubling,
\* -has_cartage); a row the browser did not send reads as the empty name
FormEntries ==
    { e \in [ name : Names, instrument : {S_Cello}, is_doubling : {FALSE},
              has_cartage : BOOLEAN ] : e.name = "Ann" \/ ~e.has_cartage }

\* ContractStep2Form (app.py:71-82) with the musician rows of request.form
Step2Forms ==
    { [ num_musicians           |-> Len(ms) + 1,
        actual_hours_engagement |-> h,
        has_rehearsal           |-> hr,
        actual_hours_rehearsal  |-> rh,
        musicians               |-> ms ] :
      h \in {None, Float(250), Float(300)}, hr \in BOOLEAN, rh \in {None, Float(310)},
      ms \in SeqsUpTo(FormEntries, MaxSide) }

\* form.validate_on_submit() for step 2: DataRequired and NumberRange(min=1) on
\* num_musicians, DataRequired and NumberRange(min=0.1) on the engagement
\* hours, Optional and NumberRange(min=0.1) on the rehearsal hours, and
\* validate_actual_hours_rehearsal (app.py:80-82)
Step2Valid(form) ==
    /\ form.num_musicians >= 1
    /\ form.actual_hours_engagement # None /\ form.actual_hours_engagement[1] >= 10
    /\ form.actual_hours_rehearsal # None => form.actual_hours_rehearsal[1] >= 10
    /\ form.has_rehearsal =>
          (form.actual_hours_rehearsal # None /\ form.actual_hours_rehearsal[1] > 0)

\* form.populate_obj(contract) for step 2 (app.py:279): the fields of the form
\* that are columns the calculation reads
Populate2(c, form) ==
    [ c EXCEPT !.num_musicians           = form.num_musicians,
               !.actual_hours_engagement = form.actual_hours_engagement,
               !.has_rehearsal           = form.has_rehearsal,
               !.actual_hours_rehearsal  = form.actual_hours_rehearsal ]

RECURSIVE BuildMusicians(_, _, _)
\* app.py:289-297: the loop over the num_musicians - 1 submitted rows: a row
\* with an empty name adds an error, and a row is appended only while there
\* is no error
BuildMusicians(entries, new_side_musicians, errors) ==
    IF entries = <<>> THEN [ new_side_musicians |-> new_side_musicians, errors |-> errors ]
    ELSE LET e    == Head(entries)
             name == Strip(e.name)
             errs == errors \/ name = ""
         IN  BuildMusicians(Tail(entries),
                            IF ~errs
                                THEN Append(new_side_musicians,
                                            [ name |-> name, instrument |-> e.instrument,
                                              is_doubling |-> e.is_doubling,
                                              has_cartage |-> e.has_cartage ])
                                ELSE new_side_musicians,
                            errs)

\* a slip: the totals calculated before the new rows replace the old ones
Step2Saved_CalcOldRoster(c, form) ==
    [ calculate_contract_totals(Populate2(c, form)).contract
        EXCEPT !.side_musicians = BuildMusicians(form.musicians, <<>>, FALSE).new_side_musicians ]

\* app.py:287, 304-305: the old rows deleted, the new rows added, the totals
\* calculated (the roster query of app.py:169 flushes the session first and so
\* reads the new rows), ready to commit
Step2Saved(c, form) ==
    calculate_contract_totals(
        [ Populate2(c, form)
            EXCEPT !.side_musicians = BuildMusicians(form.musicians, <<>>, FALSE).new_side_musicians ]
    ).contract

\* app.py:279, 282: step 1 populates columns the calculation does not read
Step1Saved(c) == calculate_contract_totals(c).contract

\* a slip: the status assignment left out
Finalized_StatusKept(c) == calculate_contract_totals(c).contract

\* app.py:369-371
Finalized(c) == [ calculate_contract_totals(c).contract EXCEPT !.status = "completed" ]

\* a slip: the owner of the row not compared with the user
Refused_OwnerNotChecked(id, user) == db[id] = None

\* `not contract or contract.user_id != current_user.id` (app.py:267, 335,
\* 346, 355, 366, 385)
Refused(id, user) == db[id] = None \/ db[id].user_id # user

Served(op, user, id, outcome) ==
    [ op |-> op, user |-> user, contract_id |-> id, outcome |-> outcome ]

\* no contract yet; the process configuration is any of the two
InitApp ==
    /\ app_config \in ConfigNames
    /\ contract = None
    /\ calc = None
    /\ fp_tie_up \in BOOLEAN
    /\ helper = None
    /\ db = [ id \in ContractIds |-> None ]
    /\ request = None
    /\ threads = None
    /\ frames = None

\* GET /contract/new (app.py:252-258): a draft row for the user, or the
\* rollback of the handler when the insert fails
new_contract ==
    \E user \in Users, fails \in BOOLEAN :
        LET free == { id \in ContractIds : db[id] = None }
        IN  /\ free # {}
            /\ LET id == CHOOSE i \in free : \A j \in free : i <= j
               IN  IF fails
                       THEN /\ request' = Served("new", user, id, "failed")
                            /\ UNCHANGED db
                       ELSE /\ db' = [ db EXCEPT ![id] = NewDraft(user) ]
                            /\ request' = Served("new", user, id, "ok")
            /\ UNCHANGED <<app_config, contract, calc, fp_tie_up, helper, threads, frames>>

\* POST /contract/create/<id>/step/1 (app.py:261-284, 311-327)
create_contract_step1 ==
    \E user \in Users, id \in ContractIds, valid \in BOOLEAN, fails \in BOOLEAN :
        /\ IF Refused(id, user)
               THEN /\ request' = Served("step1", user, id, "denied")
                    /\ UNCHANGED db
           ELSE IF db[id].status = "completed"
               THEN /\ request' = Served("step1", user, id, "completed")
                    /\ UNCHANGED db
           ELSE IF ~valid
               THEN /\ request' = Served("step1", user, id, "invalid")
                    /\ UNCHANGED db
           ELSE IF fails
               THEN /\ request' = Served("step1", user, id, "failed")
                    /\ UNCHANGED db
           ELSE /\ db' = [ db EXCEPT ![id] = Step1Saved(db[id]) ]
                /\ request' = Served("step1", user, id, "ok")
        /\ UNCHANGED <<app_config, contract, calc, fp_tie_up, helper, threads, frames>>

\* a slip: the status of the contract not looked at before the save
create_contract_step2_EditsCompleted ==
    \E user \in Users, id \in ContractIds, form \in Step2Forms, fails \in BOOLEAN :
        /\ IF Refused(id, user)
               THEN /\ request' = Served("step2", user, id, "denied")
                    /\ UNCHANGED db
           ELSE IF ~Step2Valid(form)
               THEN /\ request' = Served("step2", user, id, "invalid")
                    /\ UNCHANGED db
           ELSE IF BuildMusicians(form.musicians, <<>>, FALSE).errors
               THEN /\ request' = Served("step2", user, id, "errors")
                    /\ UNCHANGED db
           ELSE IF fails
               THEN /\ request' = Served("step2", user, id, "failed")
                    /\ UNCHANGED db
           ELSE /\ db' = [ db EXCEPT ![id] = Step2Saved(db[id], form) ]
                /\ request' = Served("step2", user, id, "ok")
        /\ UNCHANGED <<app_config, contract, calc, fp_tie_up, helper, threads, frames>>

\* POST /contract/create/<id>/step/2 (app.py:261-279, 286-327)
create_contract_step2 ==
    \E user \in Users, id \in ContractIds, form \in Step2Forms, fails \in BOOLEAN :
        /\ IF Refused(id, user)
               THEN /\ request' = Served("step2", user, id, "denied")
                    /\ UNCHANGED db
           ELSE IF db[id].status = "completed"
               THEN /\ request' = Served("step2", user, id, "completed")
                    /\ UNCHANGED db
           ELSE IF ~Step2Valid(form)
               THEN /\ request' = Served("step2", user, id, "invalid")
                    /\ UNCHANGED db
           ELSE IF BuildMusicians(form.musicians, <<>>, FALSE).errors
               THEN /\ request' = Served("step2", user, id, "errors")
                    /\ UNCHANGED db
           ELSE IF fails
               THEN /\ request' = Served("step2", user, id, "failed")
                    /\ UNCHANGED db
           ELSE /\ db' = [ db EXCEPT ![id] = Step2Saved(db[id], form) ]
                /\ request' = Served("step2", user, id, "ok")
        /\ UNCHANGED <<app_config, contract, calc, fp_tie_up, helper, threads, frames>>

\* POST /contract/finalize/<id> (app.py:360-375)
finalize_contract ==
    \E user \in Users, id \in ContractIds, fails \in BOOLEAN :
        /\ IF Refused(id, user)
               THEN /\ request' = Served("finalize", user, id, "denied")
                    /\ UNCHANGED db
           ELSE IF db[id].status # "draft"
               THEN /\ request' = Served("finalize", user, id, "not_draft")
                    /\ UNCHANGED db
           ELSE IF fails
               THEN /\ request' = Served("finalize", user, id, "failed")
                    /\ UNCHANGED db
           ELSE /\ db' = [ db EXCEPT ![id] = Finalized(db[id]) ]
                /\ request' = Served("finalize", user, id, "ok")
        /\ UNCHANGED <<app_config, contract, calc, fp_tie_up, helper, threads, frames>>

\* POST /contract/reopen/<id> (app.py:350-358)
reopen_contract ==
    \E user \in Users, id \in ContractIds :
        /\ IF Refused(id, user)
               THEN /\ request' = Served("reopen", user, id, "denied")
                    /\ UNCHANGED db
           ELSE IF db[id].status # "completed"
               THEN /\ request' = Served("reopen", user, id, "not_completed")
                    /\ UNCHANGED db
           ELSE /\ db' = [ db EXCEPT ![id].status = "draft" ]
                /\ request' = Served("reopen", user, id, "ok")
        /\ UNCHANGED <<app_config, contract, calc, fp_tie_up, helper, threads, frames>>

\* POST /contract/delete/<id> (app.py:341-348): the row and, by the cascade,
\* its side musicians
delete_contract ==
    \E user \in Users, id \in ContractIds :
        /\ IF Refused(id, user)
               THEN /\ request' = Served("delete", user, id, "denied")
                    /\ UNCHANGED db
           ELSE /\ db' = [ db EXCEPT ![id] = None ]
                /\ request' = Served("delete", user, id, "ok")
        /\ UNCHANGED <<app_config, contract, calc, fp_tie_up, helper, threads, frames>>

\* the GET routes of a contract: the two edit steps (app.py:261-274,
\* 314-327), view_contract (app.py:330-337), download_contract_pdf
\* (app.py:379-386); they commit nothing
get_contract ==
    \E user \in Users, id \in ContractIds, page \in {"get_step", "view", "pdf"} :
        /\ request' = Served(page, user, id, IF Refused(id, user) THEN "denied" ELSE "ok")
        /\ UNCHANGED <<app_config, contract, calc, fp_tie_up, helper, db, threads, frames>>

NextApp ==
    \/ new_contract
    \/ create_contract_step1
    \/ create_contract_step2
    \/ finalize_contract
    \/ reopen_contract
    \/ delete_contract
    \/ get_contract

SpecApp == InitApp /\ [][NextApp]_vars

(***************************************************************************)
(* C19.  After every committed step-1 save, step-2 save and finalize of a  *)
(* contract the persisted four totals are what calculate_contract_totals   *)
(* produces from the persisted scale keys, hours, rehearsal flag and       *)
(* roster of that contract (in the step-2 case the new roster); no         *)
(* sequence of new / edit / finalize / reopen requests leaves a contract   *)
(* that has been calculated with totals that disagree with its persisted   *)
(* inputs.                                                                 *)
(***************************************************************************)
\* the row has been through a calculation: a new row's totals are NULL
Calculated(row) == row.total_gross_comp # None

C19_TotalsFollowInputs ==
    /\ \A id \in ContractIds :
          (db[id] # None /\ Calculated(db[id])) =>
              FourTotals(db[id]) = FourTotals(calculate_contract_totals(db[id]).contract)
    /\ (request # None /\ request.op \in {"step1", "step2", "finalize"}
            /\ request.outcome = "ok") =>
          (db[request.contract_id] # None /\ Calculated(db[request.contract_id]))

\* a step-2 save has just replaced a roster of one musician without cartage
\* by one with cartage, under the configuration that pays cartage; the
\* persisted totals are those of the new roster: 333.91 + 333.91 + 29.94
C19_Witness ==
    /\ request # None
    /\ request.op = "step2" /\ request.outcome = "ok"
    /\ app_config = "test"
    /\ db[request.contract_id] # None
    /\ db[request.contract_id].actual_hours_engagement = Float(250)
    /\ ~db[request.contract_id].has_rehearsal
    /\ Len(db[request.contract_id].side_musicians) = 1
    /\ db[request.contract_id].side_musicians[1].has_cartage
    /\ db[request.contract_id].total_gross_comp = Float(69776)

(***************************************************************************)
(* Two invocations of calculate_contract_totals at once, each on its own   *)
(* contract, taken statement group by statement group: the lookups and the *)
(* checks (app.py:128-144), the leader (146-166), one side musician per    *)
(* turn of the loop (171-192), the writes (194-199), or the handler        *)
(* (202-204).                                                              *)
(***************************************************************************)
Threads == {1, 2}

\* the contracts the two invocations are given
InterleavedContracts ==
    { c \in ContractsOn({ <<"TestLocal", "Full">> }) :
        /\ c.actual_hours_engagement \in {Float(250), Float(300)}
        /\ ~c.has_rehearsal /\ c.actual_hours_rehearsal = None
        /\ c.total_gross_comp = None
        /\ \A i \in 1..Len(c.side_musicians) :
              /\ c.side_musicians[i].instrument \in {S_Violin, S_Cello}
              /\ ~c.side_musicians[i].is_doubling
              /\ ~c.side_musicians[i].has_cartage }

\* a slip: the accumulators kept in one module-level place
Frame_Shared(p) == 1

\* the frame holding the locals of invocation p: each call has its own
Frame(p) == p

InitThreads ==
    /\ app_config \in ConfigNames
    /\ contract = None
    /\ calc = None
    /\ fp_tie_up \in BOOLEAN
    /\ helper = None
    /\ db = None
    /\ request = None
    /\ threads \in [ Threads -> { [ pc |-> "start", contract |-> c, input |-> c,
                                    overlapped |-> FALSE ] : c \in InterleavedContracts } ]
    /\ frames = [ p \in Threads |-> [ acc |-> InitialTotals(None), i |-> 0 ] ]

\* another invocation is between its first and its last statement
OtherRunning(p) == \E q \in Threads \ {p} : threads[q].pc \notin {"start", "done"}

\* invocation p moves to pc with contract c
Moved(p, pc, c) ==
    [ threads EXCEPT ![p] = [ pc |-> pc, contract |-> c, input |-> threads[p].input,
                              overlapped |-> threads[p].overlapped \/ OtherRunning(p) ] ]

\* app.py:128-144, or 129/138 raising into the handler of 202-204
ThreadBegin(p) ==
    /\ threads[p].pc = "start"
    /\ LET c            == threads[p].contract
           scale_config == LookupScale(c)
       IN  IF Falsy(scale_config) \/ ~BaseRateUsable(Rates(scale_config).base_perf_rate)
               THEN /\ threads' = Moved(p, "done", ZeroTotals(c))
                    /\ UNCHANGED frames
               ELSE /\ threads' = Moved(p, "leader", c)
                    /\ frames' = [ frames EXCEPT ![Frame(p)] = [ acc |-> InitialTotals(c), i |-> 0 ] ]
    /\ UNCHANGED <<app_config, contract, calc, fp_tie_up, helper, db, request>>

\* app.py:146-166
ThreadLeader(p) ==
    /\ threads[p].pc = "leader"
    /\ LET c            == threads[p].contract
           scale_config == LookupScale(c)
           r            == Rates(scale_config)
           perf_hours   == OrZero(c.actual_hours_engagement)
           reh_hours    == OrZero(c.actual_hours_rehearsal)
           leader       == LeaderPay(r, scale_config, HasPerf(perf_hours),
                                     HasReh(c.has_rehearsal, reh_hours), perf_hours, reh_hours)
       IN  /\ frames' = [ frames EXCEPT ![Frame(p)] =
                            [ acc |-> AddParticipant(frames[Frame(p)].acc, leader, r.pension_rate),
                              i   |-> 1 ] ]
           /\ threads' = Moved(p, "side", c)
    /\ UNCHANGED <<app_config, contract, calc, fp_tie_up, helper, db, request>>

\* app.py:171-192: one turn of the loop
ThreadSide(p) ==
    /\ threads[p].pc = "side"
    /\ frames[Frame(p)].i \in 1..Len(threads[p].contract.side_musicians)
    /\ LET c            == threads[p].contract
           scale_config == LookupScale(c)
           r            == Rates(scale_config)
           perf_hours   == OrZero(c.actual_hours_engagement)
           reh_hours    == OrZero(c.actual_hours_rehearsal)
           musician     == c.side_musicians[frames[Frame(p)].i]
           pay          == MusicianPay(musician, r, scale_config, HasPerf(perf_hours),
                                       HasReh(c.has_rehearsal, reh_hours), perf_hours, reh_hours)
       IN  /\ frames' = [ frames EXCEPT ![Frame(p)] =
                            [ acc |-> AddParticipant(frames[Frame(p)].acc, pay, r.pension_rate),
                              i   |-> frames[Frame(p)].i + 1 ] ]
           /\ threads' = Moved(p, "side", c)
    /\ UNCHANGED <<app_config, contract, calc, fp_tie_up, helper, db, request>>

\* app.py:194-201: the loop is over
ThreadWrite(p) ==
    /\ threads[p].pc = "side"
    /\ frames[Frame(p)].i > Len(threads[p].contract.side_musicians)
    /\ LET c   == threads[p].contract
           r   == Rates(LookupScale(c))
           acc == frames[Frame(p)].acc
       IN  threads' = Moved(p, "done", WriteTotals(c, acc, WorkDues(acc.total_gross, r.work_dues_rate)))
    /\ UNCHANGED <<app_config, contract, calc, fp_tie_up, helper, db, request, frames>>

NextThreads ==
    \E p \in Threads : ThreadBegin(p) \/ ThreadLeader(p) \/ ThreadSide(p) \/ ThreadWrite(p)

SpecThreads == InitThreads /\ [][NextThreads]_vars

(***************************************************************************)
(* C20.  Calculations for two different contracts may be interleaved       *)
(* arbitrarily: each contract ends with exactly the totals (and the        *)
(* count) it would get if its calculation ran alone, and an invocation     *)
(* leaves the other one's contract as it is.                               *)
(***************************************************************************)
C20_InterleavingSafe ==
    \A p \in Threads :
        /\ threads[p].pc = "done" =>
              threads[p].contract = calculate_contract_totals(threads[p].input).contract
        /\ threads[p].pc = "start" => threads[p].contract = threads[p].input

\* both invocations ran while the other was under way, on different
\* contracts, and both wrote totals above 0
C20_Witness ==
    /\ \A p \in Threads : threads[p].pc = "done" /\ threads[p].overlapped
    /\ threads[1].input # threads[2].input
    /\ Len(threads[1].input.side_musicians) = 1
    /\ threads[1].contract.total_gross_comp # Float(0)
    /\ threads[2].contract.total_gross_comp # Float(0)
    /\ threads[1].contract.total_gross_comp # threads[2].contract.total_gross_comp

(***************************************************************************)
(* C21.  Contract status lifecycle: a new contract starts in status        *)
(* 'draft'; the status is always 'draft' or 'completed'; the only          *)
(* transition to 'completed' is finalize applied to a draft (finalize on a *)
(* completed contract changes nothing), and the only transition back to    *)
(* 'draft' is reopen applied to a completed contract (reopen on a draft    *)
(* changes nothing).                                                       *)
(***************************************************************************)
StatusOK ==
    \A id \in ContractIds : db[id] # None => db[id].status \in {"draft", "completed"}

\* one request's effect on the status of the rows
StatusStep ==
    \A id \in ContractIds :
        /\ (db[id] = None /\ db'[id] # None) =>
              (db'[id].status = "draft" /\ request'.op = "new")
        /\ (db[id] # None /\ db'[id] # None /\ db'[id].status # db[id].status) =>
              \/ /\ db[id].status = "draft" /\ db'[id].status = "completed"
                 /\ request' = Served("finalize", db[id].user_id, id, "ok")
              \/ /\ db[id].status = "completed" /\ db'[id].status = "draft"
                 /\ request' = Served("reopen", db[id].user_id, id, "ok")
        /\ (request'.contract_id = id /\ request'.op = "finalize" /\ request'.outcome = "ok") =>
              (db[id].status = "draft" /\ db'[id].status = "completed")
        /\ (request'.contract_id = id /\ request'.op = "reopen" /\ request'.outcome = "ok") =>
              (db[id].status = "completed" /\ db'[id].status = "draft")
        /\ (request'.contract_id = id /\ request'.op = "finalize"
                /\ db[id] # None /\ db[id].status = "completed") => db' = db
        /\ (request'.contract_id = id /\ request'.op = "reopen"
                /\ db[id] # None /\ db[id].status = "draft") => db' = db

C21_StatusLifecycle == []StatusOK /\ [][StatusStep]_vars

\* a contract that was finalized and has just been reopened by its owner
C21_Witness ==
    /\ request # None
    /\ request.op = "reopen" /\ request.outcome = "ok"
    /\ db[request.contract_id] # None
    /\ db[request.contract_id].status = "draft"
    /\ Calculated(db[request.contract_id])
    /\ db[request.contract_id].user_id = request.user

(***************************************************************************)
(* C22.  While a contract is in status 'completed', a POST to either edit  *)
(* step is rejected and leaves the contract's fields, its four totals, its *)
(* num_musicians and its side-musician roster unchanged; they can change   *)
(* again only after reopen has returned it to 'draft'.                     *)
(***************************************************************************)
\* one request's effect on a row that is completed
CompletedStep ==
    \A id \in ContractIds :
        (db[id] # None /\ db[id].status = "completed") =>
            /\ (request'.contract_id = id /\ request'.op \in {"step1", "step2"}) =>
                  /\ request'.outcome \in {"completed", "denied"}
                  /\ request'.user = db[id].user_id => request'.outcome = "completed"
                  /\ db' = db
            /\ db'[id] # None => [ db'[id] EXCEPT !.status = "completed" ] = db[id]

C22_CompletedRejectsEdits == [][CompletedStep]_vars

\* the owner's step-2 POST to a completed contract with a side musician has
\* just been turned away
C22_Witness ==
    /\ request # None
    /\ request.op = "step2" /\ request.outcome = "completed"
    /\ db[request.contract_id] # None
    /\ db[request.contract_id].status = "completed"
    /\ db[request.contract_id].user_id = request.user
    /\ Len(db[request.contract_id].side_musicians) = 1
    /\ db[request.contract_id].total_gross_comp # Float(0)

(***************************************************************************)
(* C23.  Ownership: every contract operation (edit step GET or POST, view, *)
(* delete, reopen, finalize, PDF) issued by a logged-in user who is not    *)
(* the contract's owner is refused and leaves the contract, its roster,    *)
(* its totals and its status unchanged; a contract is only ever modified   *)
(* or deleted by requests of the user whose id equals its user_id.         *)
(***************************************************************************)
\* one request's effect on a row, by who sent it
OwnershipStep ==
    \A id \in ContractIds :
        db[id] # None =>
            /\ (request'.contract_id = id /\ request'.user # db[id].user_id) =>
                  (request'.outcome = "denied" /\ db' = db)
            /\ db'[id] # db[id] =>
                  (request'.contract_id = id /\ request'.user = db[id].user_id)
            /\ db'[id] # None => db'[id].user_id = db[id].user_id

C23_OwnerOnly == [][OwnershipStep]_vars

\* a user who does not own the calculated contract has just been refused its
\* deletion; the row is still there
C23_Witness ==
    /\ request # None
    /\ request.op = "delete" /\ request.outcome = "denied"
    /\ db[request.contract_id] # None
    /\ db[request.contract_id].user_id # request.user
    /\ Calculated(db[request.contract_id])
    /\ Len(db[request.contract_id].side_musicians) = 1

(***************************************************************************)
(* Contracts that store a classification of the leader                     *)
(***************************************************************************)
\* models.py:99-104: the leader columns of a Contract row that describe how
\* the leader would be classified (no form of app.py writes them)
LeaderFields ==
    [ leader_instrument   : {S_Empty, S_Cello, S_StringBass},
      leader_is_principal : BOOLEAN,
      leader_is_doubling  : BOOLEAN,
      leader_has_cartage  : BOOLEAN ]

\* the column defaults (models.py:101-104), with no instrument
DefaultLeaderFields ==
    [ leader_instrument   |-> S_Empty,
      leader_is_principal |-> FALSE,
      leader_is_doubling  |-> FALSE,
      leader_has_cartage  |-> FALSE ]

\* a contract row with the leader columns lf
WithLeader(c, lf) ==
    [ f \in (DOMAIN c) \cup (DOMAIN lf) |-> IF f \in DOMAIN lf THEN lf[f] ELSE c[f] ]

\* side musicians of the leader contracts: plain cellists
LeaderRosters ==
    SeqsUpTo({ [ instrument |-> S_Cello, is_doubling |-> FALSE, has_cartage |-> FALSE ] },
             MaxSide)

\* new rows (models.py:87, 109-112) of the two schedules that pay a premium,
\* with every classification of the leader
LeaderContracts ==
    { WithLeader(c, lf) :
        c \in { k \in ContractsOn({ <<"Local802", "ClassicalConcert_23_24">>,
                                    <<"TestLocal", "Full">> }) :
                    /\ k.side_musicians \in LeaderRosters
                    /\ k.total_gross_comp = None },
        lf \in LeaderFields }

\* calculate_contract_totals on those contracts, under the configuration that
\* has both schedules and the cartage fees
InitLeader ==
    /\ app_config = "test"
    /\ contract \in LeaderContracts
    /\ calc = None
    /\ fp_tie_up \in BOOLEAN
    /\ helper = None
    /\ db = None
    /\ request = None
    /\ threads = None
    /\ frames = None

SpecLeader == InitLeader /\ [][Next]_vars

(***************************************************************************)
(* C24.  The leader is always paid as a non-principal, non-doubling        *)
(* participant without cartage: the leader's gross equals the session base *)
(* rate(s) plus overtime at the standard (non-principal) overtime rates,   *)
(* and is unaffected by the contract's stored leader_instrument,           *)
(* leader_is_principal, leader_is_doubling and leader_has_cartage fields.  *)
(***************************************************************************)
\* base rate(s) of the sessions that occurred plus overtime units at the
\* standard rates, in micro-dollars
StandardGross(r, has_perf, has_reh, perf_hours, reh_hours) ==
    (IF has_perf
        THEN r.base_perf_rate * 10000
               + OvertimeUnits(perf_hours, r.perf_ot_unit_mins) * r.perf_ot_rate * 10000
        ELSE 0)
    + (IF has_reh
        THEN r.base_reh_rate * 10000
               + OvertimeUnits(reh_hours, r.reh_ot_unit_mins) * r.reh_ot_rate * 10000
        ELSE 0)

C24_LeaderPaidStandard ==
    (Succeeded /\ "leader_is_principal" \in DOMAIN calc.before) =>
        LET c      == calc.before
            r      == Rates(LookupScale(c))
            leader == calc.body.pays[1]
            plain  == calculate_contract_totals(WithLeader(c, DefaultLeaderFields))
        IN  /\ leader.is_principal = FALSE
            /\ leader.is_doubling = FALSE
            /\ leader.doubling_pay = 0
            /\ leader.cartage_pay = 0
            /\ leader.gross = StandardGross(r, calc.body.has_perf, calc.body.has_reh,
                                            OrZero(c.actual_hours_engagement),
                                            OrZero(c.actual_hours_rehearsal))
            /\ leader = plain.body.pays[1]
            /\ contract.total_gross_comp = plain.contract.total_gross_comp
            /\ contract.total_pension = plain.contract.total_pension
            /\ contract.total_work_dues = plain.contract.total_work_dues
            /\ contract.total_health = plain.contract.total_health
            /\ contract.num_musicians = plain.contract.num_musicians
            /\ \A f \in DOMAIN DefaultLeaderFields : contract[f] = c[f]

\* a contract whose stored leader is a doubling principal string-bass player
\* with cartage was calculated, with overtime in both sessions
C24_Witness ==
    /\ Succeeded
    /\ "leader_is_principal" \in DOMAIN calc.before
    /\ calc.before.leader_is_principal
    /\ calc.before.leader_is_doubling
    /\ calc.before.leader_has_cartage
    /\ calc.before.leader_instrument = S_StringBass
    /\ calc.before.applicable_local = "TestLocal"
    /\ calc.body.has_perf /\ calc.body.has_reh
    /\ calc.body.pays[1].perf_ot_units > 0
    /\ calc.body.pays[1].reh_ot_units > 0
    /\ calc.body.pays[1].gross > 0

(***************************************************************************)
(* The step-2 save, statement by statement: `db` is what is committed, and *)
(* `request` the request being served, with its session's pending changes  *)
(***************************************************************************)
\* most musician rows on a submitted step-2 page
MaxRows == 2

\* names typed into the musician rows
RosterNames == {"", " ", "Ann", "Bea"}

\* one submitted musician row; a row the browser did not send reads as the
\* empty name (request.form.get(..., ""), app.py:290)
RosterEntries ==
    [ name : RosterNames, instrument : {S_Cello}, is_doubling : {FALSE},
      has_cartage : {FALSE} ]

\* ContractStep2Form (app.py:71-82) with the musician rows of request.form
RosterForms ==
    { [ num_musicians           |-> Len(ms) + 1,
        actual_hours_engagement |-> h,
        has_rehearsal           |-> FALSE,
        actual_hours_rehearsal  |-> None,
        musicians               |-> ms ] :
      h \in {None, Float(250)}, ms \in SeqsUpTo(RosterEntries, MaxRows) }

\* the forms an earlier step-2 POST saved
SavedForms ==
    { f \in RosterForms :
        Step2Valid(f) /\ ~BuildMusicians(f.musicians, <<>>, FALSE).errors }

\* a draft of some user, new or with the roster an earlier step-2 POST saved;
\* no request is being served
InitRoster ==
    /\ app_config = "shipped"
    /\ contract = None
    /\ calc = None
    /\ fp_tie_up \in BOOLEAN
    /\ helper = None
    /\ db \in [ ContractIds ->
                  { NewDraft(u) : u \in Users }
                    \cup { Step2Saved(NewDraft(u), f) : u \in Users, f \in SavedForms } ]
    /\ request = None
    /\ threads = None
    /\ frames = None

\* the request that has returned
Returned(user, id, form, new_side_musicians, outcome) ==
    [ pc |-> "done", user |-> user, contract_id |-> id, form |-> form,
      session |-> None, new_side_musicians |-> new_side_musicians, errors |-> FALSE,
      i |-> 0, outcome |-> outcome ]

\* no request is being served
Idle == IF request = None THEN TRUE ELSE request.pc = "done"

\* app.py:261-287: the POST up to the loop: the owner check (267), the
\* completed check (269), validation (276), populate_obj (279) and the
\* DELETE of the contract's rows (287), pending in the session
PostBegin ==
    \E user \in Users, id \in ContractIds, form \in RosterForms :
        /\ Idle
        /\ request' =
              IF Refused(id, user) THEN Returned(user, id, form, <<>>, "denied")
              ELSE IF db[id].status = "completed"
                  THEN Returned(user, id, form, <<>>, "completed")
              ELSE IF ~Step2Valid(form) THEN Returned(user, id, form, <<>>, "invalid")
              ELSE [ pc |-> "loop", user |-> user, contract_id |-> id, form |-> form,
                     session |-> [ Populate2(db[id], form) EXCEPT !.side_musicians = <<>> ],
                     new_side_musicians |-> <<>>, errors |-> FALSE, i |-> 0,
                     outcome |-> "" ]
        /\ UNCHANGED <<app_config, contract, calc, fp_tie_up, helper, db, threads, frames>>

\* the request is in the loop and has rows left / has none left
InLoop == request # None /\ request.pc = "loop"

RowsLeft == request.i < request.form.num_musicians - 1

\* app.py:289-297: one iteration of the loop
PostRow ==
    /\ InLoop /\ RowsLeft
    /\ LET b == BuildMusicians(<<request.form.musicians[request.i + 1]>>,
                               request.new_side_musicians, request.errors)
       IN  request' = [ request EXCEPT !.new_side_musicians = b.new_side_musicians,
                                       !.errors = b.errors,
                                       !.i = @ + 1 ]
    /\ UNCHANGED <<app_config, contract, calc, fp_tie_up, helper, db, threads, frames>>

\* a slip: the session committed before the page is rendered
Abandoned_Committed(row, req) ==
    [ req.session EXCEPT !.side_musicians = req.new_side_musicians ]

\* app.py:302: the handler returns without commit or rollback; the session is
\* removed when the request ends and its pending changes are discarded
Abandoned(row, req) == row

\* app.py:299-302: the page rendered again with the errors
PostErrors ==
    /\ InLoop /\ ~RowsLeft /\ request.errors
    /\ db' = [ db EXCEPT ![request.contract_id] = Abandoned(@, request) ]
    /\ request' = Returned(request.user, request.contract_id, request.form,
                           request.new_side_musicians, "errors")
    /\ UNCHANGED <<app_config, contract, calc, fp_tie_up, helper, threads, frames>>

\* app.py:304-305: add_all, the calculation (its roster query flushes the
\* session first), commit
Committed(session, new_side_musicians) ==
    calculate_contract_totals([ session EXCEPT !.side_musicians = new_side_musicians ]).contract

PostSave ==
    /\ InLoop /\ ~RowsLeft /\ ~request.errors
    /\ db' = [ db EXCEPT ![request.contract_id] =
                            Committed(request.session, request.new_side_musicians) ]
    /\ request' = Returned(request.user, request.contract_id, request.form,
                           request.new_side_musicians, "ok")
    /\ UNCHANGED <<app_config, contract, calc, fp_tie_up, helper, threads, frames>>

\* app.py:311: an exception of add_all or commit: db.session.rollback()
PostFail ==
    /\ InLoop /\ ~RowsLeft /\ ~request.errors
    /\ request' = Returned(request.user, request.contract_id, request.form,
                           request.new_side_musicians, "failed")
    /\ UNCHANGED <<app_config, contract, calc, fp_tie_up, helper, db, threads, frames>>

NextRoster == PostBegin \/ PostRow \/ PostErrors \/ PostSave \/ PostFail

SpecRoster == InitRoster /\ [][NextRoster]_vars

(***************************************************************************)
(* C25.  A step-2 save replaces the roster atomically: after any step-2    *)
(* POST on a draft, the persisted side-musician roster is either exactly   *)
(* the previous roster (submission rejected, e.g. because a submitted      *)
(* musician has an empty name, or failed) or exactly the num_musicians - 1 *)
(* musicians submitted in the form, each with a non-empty name; it is      *)
(* never empty-by-deletion, a mix of old and new rows, or a prefix of the  *)
(* submitted musicians.                                                    *)
(***************************************************************************)
\* roster is the form's num_musicians - 1 rows, in order, names stripped and
\* none of them empty
IsSubmitted(roster, form) ==
    /\ Len(roster) = form.num_musicians - 1
    /\ \A k \in 1..Len(roster) :
          /\ roster[k].name = Strip(form.musicians[k].name)
          /\ roster[k].name # ""
          /\ roster[k].instrument = form.musicians[k].instrument
          /\ roster[k].is_doubling = form.musicians[k].is_doubling
          /\ roster[k].has_cartage = form.musicians[k].has_cartage

\* one statement of the POST, seen from the committed rows
RosterStep ==
    \A id \in ContractIds :
        /\ db'[id] # None
        /\ db'[id].side_musicians # db[id].side_musicians =>
              /\ request'.pc = "done" /\ request'.outcome = "ok"
              /\ request'.contract_id = id
        /\ (InLoop /\ request'.pc = "done" /\ request'.contract_id = id) =>
              IF request'.outcome = "ok"
                  THEN IsSubmitted(db'[id].side_musicians, request'.form)
                  ELSE db'[id].side_musicians = db[id].side_musicians

C25_RosterReplacedWhole == [][RosterStep]_vars

\* a POST of two rows, the first named and the second not, was rejected after
\* its first row had been built; the contract keeps its two earlier rows
C25_Witness ==
    /\ request # None
    /\ request.pc = "done" /\ request.outcome = "errors"
    /\ Len(request.form.musicians) = 2
    /\ Len(request.new_side_musicians) = 1
    /\ Len(db[request.contract_id].side_musicians) = 2
    /\ db[request.contract_id].side_musicians[1].name
          # request.new_side_musicians[1].name

====
